---- MODULE Spec2Model ----
(***************************************************************************)
(* A model of rcds' challenge asset pipeline (rcds/challenge/challenge.py): *)
(* Challenge.create_transaction and the asset-source registry, the zip      *)
(* asset handler with PermissiveZipFile, and get_context_shortcuts.         *)
(*                                                                          *)
(* Conventions.  A filesystem path is the sequence of its components, from *)
(* the filesystem's root <<>> on; a zip member name is its "/"-split, so a  *)
(* trailing "" component is a trailing slash.  An include glob is the       *)
(* "/"-split of its pattern, each component the sequence of its characters. *)
(*  Text is a sequence of one-character strings, bytes are  *)
(* sequences of numbers 0..255.  A Python dict is a record whose DOMAIN is  *)
(* its key set, so a missing key (KeyError) is a missing field.  A file     *)
(* mode is st_mode & 0xFFFF, i.e. the upper half of ZipInfo.external_attr;  *)
(* the lower half (the MS-DOS attributes) is kept apart.  Times (st_mtime,  *)
(* the wall clock) are whole seconds counted from an even second later than *)
(* 1980, the first year a ZIP member can carry.  An operator that can raise *)
(* gives a record whose field `raised` names the exception, or is "none".   *)
(***************************************************************************)
EXTENDS Integers, Sequences, FiniteSets, TLC

VARIABLES
    config,          \* Challenge.config: the unit's configuration mapping
    _asset_sources,  \* Challenge._asset_sources: kind -> registered handler
    fs,              \* the filesystem under Challenge.root: path -> stat+data
    pc,              \* position inside create_transaction
    i,               \* index of the provide entry the for loop is at
    transaction,     \* calls made so far on the AssetManagerTransaction
    returned,        \* what create_transaction handed to its caller
    error,           \* the exception that left create_transaction, if any
    runs,            \* results of the _add_zip_asset runs made so far
    shortcuts        \* the last result of get_context_shortcuts

vars == <<config, _asset_sources, fs, pc, i, transaction, returned, error,
          runs, shortcuts>>

-----------------------------------------------------------------------------
(* Bounds of the model *)

MaxMtime == 2
MaxGlobs == 2
MaxProvide == 3
MaxNow == 2
MaxRuns == 2
MaxHostLen == 4

-----------------------------------------------------------------------------
(* Generic helpers *)

Max2(a, b) == IF a >= b THEN a ELSE b

Last(s) == s[Len(s)]

Front(s) == SubSeq(s, 1, Len(s) - 1)

SetMin(S) == CHOOSE m \in S : \A x \in S : m <= x

IsPrefix(p, s) == Len(p) <= Len(s) /\ SubSeq(s, 1, Len(p)) = p

RECURSIVE Flatten(_)
Flatten(ss) == IF ss = <<>> THEN <<>> ELSE Head(ss) \o Flatten(Tail(ss))

RECURSIVE Dedup(_)
\* order-preserving removal of repeats
Dedup(s) ==
    IF s = <<>> THEN <<>>
    ELSE LET r == Dedup(SubSeq(s, 1, Len(s) - 1))
         IN  IF \E k \in 1..Len(r) : r[k] = Last(s) THEN r
             ELSE Append(r, Last(s))

-----------------------------------------------------------------------------
(* The filesystem *)

\* Challenge.root, an absolute path
Root == <<"chall">>

\* stat modes: S_IFREG | perms and S_IFDIR | perms
FileModes == {33188, 33152}   \* 0o100644, 0o100600
DirModes == {16893, 16832}    \* 0o40775, 0o40700

\* what resolve gives for a path that names nothing: no node has an empty name
NoNode == <<"">>

RECURSIVE resolve(_, _)
\* the node a path names, "." and ".." followed as the operating system
\* follows them: every component but the last has to be a directory, and
\* the root is its own parent
resolve(fsys, path) ==
    IF path = <<>> THEN <<>>
    ELSE LET dir == resolve(fsys, Front(path))
             name == Last(path)
         IN  IF dir \notin DOMAIN fsys \/ fsys[dir].type # "dir" THEN NoNode
             ELSE IF name = "." THEN dir
             ELSE IF name = ".." THEN (IF dir = <<>> THEN <<>> ELSE Front(dir))
             ELSE IF Append(dir, name) \in DOMAIN fsys THEN Append(dir, name)
             ELSE NoNode

\* Path.exists()
exists(fsys, path) == resolve(fsys, path) \in DOMAIN fsys

\* Path.stat()
stat(fsys, path) == fsys[resolve(fsys, path)]

is_file(fsys, path) == exists(fsys, path) /\ stat(fsys, path).type = "file"

is_dir(fsys, path) == exists(fsys, path) /\ stat(fsys, path).type = "dir"

\* Path.iterdir(): the children of a directory in the order os.scandir
\* lists them.  The order is the filesystem's own and follows no rule the
\* program can rely on, so it is part of the tree: every directory node
\* holds its `listing`, some permutation of the names of its children
iterdir(fsys, path) ==
    LET listing == stat(fsys, path).listing
    IN  [k \in 1..Len(listing) |-> Append(path, listing[k])]

\* Path.relative_to(base), for a path that starts with base
relative_to(path, base) == SubSeq(path, Len(base) + 1, Len(path))

RECURSIVE normpath(_)
\* os.path.normpath of a relative path: "." dropped, "name/.." collapsed, a
\* leading ".." kept; <<>> stands for "."
normpath(rel) ==
    IF rel = <<>> THEN <<>>
    ELSE LET head == normpath(Front(rel))
             name == Last(rel)
         IN  IF name = "." THEN head
             ELSE IF name = ".." /\ head # <<>> /\ Last(head) # ".."
                  THEN Front(head)
             ELSE Append(head, name)

-----------------------------------------------------------------------------
(* fnmatch, as pathlib compiles a wildcard component of a glob pattern *)

\* the printable ASCII characters in code point order, from 32 on (the
\* grave accent, 96, left blank)
Ascii ==
    <<" ", "!", "\"", "#", "$", "%", "&", "'", "(", ")", "*", "+", ",", "-",
      ".", "/", "0", "1", "2", "3", "4", "5", "6", "7", "8", "9", ":", ";",
      "<", "=", ">", "?", "@", "A", "B", "C", "D", "E", "F", "G", "H", "I",
      "J", "K", "L", "M", "N", "O", "P", "Q", "R", "S", "T", "U", "V", "W",
      "X", "Y", "Z", "[", "\\", "]", "^", "_", "", "a", "b", "c", "d", "e",
      "f", "g", "h", "i", "j", "k", "l", "m", "n", "o", "p", "q", "r", "s",
      "t", "u", "v", "w", "x", "y", "z", "{", "|", "}", "~">>

\* ord(c) of a printable ASCII character
ord(c) == 31 + (CHOOSE k \in 1..Len(Ascii) : Ascii[k] = c)

\* fnmatch.translate at a "[" whose set starts at position pos: the position
\* of the "]" that closes it, 0 when nothing does (the "[" is then literal).
\* A "]" right after "[" or "[!" belongs to the set
SetEnd(pat, pos) ==
    LET j1 == IF pos <= Len(pat) /\ pat[pos] = "!" THEN pos + 1 ELSE pos
        j2 == IF j1 <= Len(pat) /\ pat[j1] = "]" THEN j1 + 1 ELSE j1
        ends == {j \in j2..Len(pat) : pat[j] = "]"}
    IN  IF ends = {} THEN 0 ELSE SetMin(ends)

RECURSIVE SetHas(_, _)
\* whether the characters and ranges x-y listed in body hold c; a "-" is a
\* range sign between two characters only, and a range whose ends are in
\* the wrong order holds nothing
SetHas(c, body) ==
    IF body = <<>> THEN FALSE
    ELSE IF Len(body) >= 3 /\ body[2] = "-" THEN
        \/ ord(body[1]) <= ord(c) /\ ord(c) <= ord(body[3])
        \/ SetHas(c, SubSeq(body, 4, Len(body)))
    ELSE c = body[1] \/ SetHas(c, Tail(body))

\* whether the set [stuff] matches c: a leading "!" negates
InSet(c, stuff) ==
    IF stuff # <<>> /\ stuff[1] = "!" THEN ~SetHas(c, Tail(stuff))
    ELSE SetHas(c, stuff)

RECURSIVE fnmatch(_, _)
\* re.compile(fnmatch.translate(pat)).fullmatch(name): "*" is any run of
\* characters, "?" any one character, "[...]" one character of a set
fnmatch(name, pat) ==
    IF pat = <<>> THEN name = <<>>
    ELSE IF Head(pat) = "*" THEN
        \E k \in 0..Len(name) :
            fnmatch(SubSeq(name, k + 1, Len(name)), Tail(pat))
    ELSE IF name = <<>> THEN FALSE
    ELSE IF Head(pat) = "?" THEN fnmatch(Tail(name), Tail(pat))
    ELSE IF Head(pat) = "[" /\ SetEnd(pat, 2) > 0 THEN
        /\ InSet(Head(name), SubSeq(pat, 2, SetEnd(pat, 2) - 1))
        /\ fnmatch(Tail(name), SubSeq(pat, SetEnd(pat, 2) + 1, Len(pat)))
    ELSE Head(name) = Head(pat) /\ fnmatch(Tail(name), Tail(pat))

-----------------------------------------------------------------------------
(* pathlib globbing: base.glob(pattern) *)

\* the characters of a file name, which fnmatch reads one by one
name_chars(name) == [k \in 1..Len(name) |-> SubSeq(name, k, k)]

RECURSIVE literal_name(_)
\* the name a literal pattern component spells: its characters joined
literal_name(part) ==
    IF part = <<>> THEN "" ELSE Head(part) \o literal_name(Tail(part))

\* _is_wildcard_pattern(pat)
is_wildcard_pattern(part) ==
    \E k \in 1..Len(part) : part[k] \in {"*", "?", "["}

\* "**" in pat
has_double_star(part) ==
    \E k \in 1..(Len(part) - 1) : part[k] = "*" /\ part[k + 1] = "*"

RECURSIVE SubDirs(_, _)
\* _iterate_directories: a directory followed by all directories below it,
\* pre-order
SubDirs(fsys, dir) ==
    LET kids == SelectSeq(iterdir(fsys, dir), LAMBDA c : is_dir(fsys, c))
    IN  <<dir>> \o Flatten([k \in 1..Len(kids) |-> SubDirs(fsys, kids[k])])

RECURSIVE select_from(_, _, _)
\* selector._select_from(dir) for the selector chain of parts; a selector
\* with a successor (dironly) takes directories only
select_from(fsys, dir, parts) ==
    IF parts = <<>> \/ Head(parts) = <<>> THEN
        \* _TerminatingSelector
        <<dir>>
    ELSE IF Head(parts) = <<"*", "*">> THEN
        \* _RecursiveWildcardSelector: every directory from dir down,
        \* each result yielded only once
        LET ds == SubDirs(fsys, dir)
        IN  Dedup(Flatten([k \in 1..Len(ds) |->
                              select_from(fsys, ds[k], Tail(parts))]))
    ELSE IF is_wildcard_pattern(Head(parts)) THEN
        \* _WildcardSelector: the children whose name matches
        LET kids == SelectSeq(iterdir(fsys, dir), LAMBDA c :
                        /\ Tail(parts) = <<>> \/ is_dir(fsys, c)
                        /\ fnmatch(name_chars(Last(c)), Head(parts)))
        IN  Flatten([k \in 1..Len(kids) |->
                        select_from(fsys, kids[k], Tail(parts))])
    ELSE
        \* _PreciseSelector: the named child, if it exists
        LET c == Append(dir, literal_name(Head(parts)))
        IN  IF (IF Tail(parts) = <<>> THEN exists(fsys, c)
                ELSE is_dir(fsys, c))
            THEN select_from(fsys, c, Tail(parts))
            ELSE <<>>

\* the pattern parts Path.glob hands to _make_selector: parse_parts drops
\* the empty and the "." components, a pattern ending in "/" gets a final
\* empty part
pattern_parts(pat) ==
    SelectSeq(pat, LAMBDA part : part # <<>> /\ part # <<".">>)
    \o (IF Last(pat) = <<>> THEN << <<>> >> ELSE <<>>)

\* base.glob(pat), run to its end: the exception it raises, if any, and the
\* paths it yields.  pat is never the empty sequence: the empty pattern
\* splits into one empty component
glob(fsys, base, pat) ==
    LET parts == pattern_parts(pat)
    IN  IF pat = << <<>> >> THEN
            \* if not pattern
            [raised |-> "ValueError", paths |-> <<>>]
        ELSE IF Head(pat) = <<>> THEN
            \* a pattern with a root
            [raised |-> "NotImplementedError", paths |-> <<>>]
        ELSE IF parts = <<>> THEN
            \* pattern_parts[0] of no parts
            [raised |-> "IndexError", paths |-> <<>>]
        ELSE IF Head(parts) = <<>> THEN
            \* _TerminatingSelector has no select_from
            [raised |-> "AttributeError", paths |-> <<>>]
        ELSE IF \E k \in 1..Len(parts) :
                    parts[k] # <<"*", "*">> /\ has_double_star(parts[k]) THEN
            [raised |-> "ValueError", paths |-> <<>>]
        ELSE IF ~is_dir(fsys, base) THEN [raised |-> "none", paths |-> <<>>]
        ELSE [raised |-> "none", paths |-> select_from(fsys, base, parts)]

-----------------------------------------------------------------------------
(* pathspec "gitwildmatch" exclusion.  A pattern line is [neg, segs]: neg   *)
(* is a leading "!", segs the "/"-split of the rest ("d/" is <<"d", "">>,   *)
(* "/a" is <<"", "a">>).                                                    *)

PatAnchored(segs) ==
    \/ Head(segs) = ""
    \/ Len(SelectSeq(segs, LAMBDA s : s # "")) > 1

PatDirOnly(segs) == Last(segs) = ""

PatBody(segs) == SelectSeq(segs, LAMBDA s : s # "")

SegMatch(seg, name) == seg = "*" \/ seg = name

\* GitWildMatchPattern.match_file: the compiled regex matches the path when
\* the pattern's segments match a run of components (from the first one when
\* anchored); the rest of the path, if any, is matched by "(/.*)?", and a
\* directory-only pattern needs a non-empty rest
PatMatch(segs, path) ==
    LET body == PatBody(segs)
        n == Len(body)
    IN  \E j \in 1..Len(path) :
            /\ PatAnchored(segs) => j = 1
            /\ j + n - 1 <= Len(path)
            /\ \A k \in 1..n : SegMatch(body[k], path[j + k - 1])
            /\ PatDirOnly(segs) => j + n - 1 < Len(path)

\* str(path) of a relative path as match_file gets it: base itself is "."
path_str(rel) == IF rel = <<>> THEN <<".">> ELSE rel

\* PathSpec.match_file: the last pattern that matches decides
match_file(lines, rel) ==
    LET path == path_str(rel)
        hits == {k \in 1..Len(lines) : PatMatch(lines[k].segs, path)}
    IN  /\ hits # {}
        /\ ~lines[CHOOSE k \in hits : \A m \in hits : m <= k].neg

-----------------------------------------------------------------------------
(* Content of synthetic archive members *)

\* str.encode("utf-8") of one code point: the surrogates U+D800..U+DFFF
\* have no encoding
utf8(cp) ==
    IF cp >= 55296 /\ cp <= 57343
    THEN [raised |-> "UnicodeEncodeError", data |-> <<>>]
    ELSE [raised |-> "none",
          data |->
             IF cp < 128 THEN <<cp>>
             ELSE IF cp < 2048 THEN <<192 + (cp \div 64), 128 + (cp % 64)>>
             ELSE IF cp < 65536 THEN
                 <<224 + (cp \div 4096), 128 + ((cp \div 64) % 64),
                   128 + (cp % 64)>>
             ELSE <<240 + (cp \div 262144), 128 + ((cp \div 4096) % 64),
                    128 + ((cp \div 64) % 64), 128 + (cp % 64)>>]

\* data.encode("utf-8"): text given as its code points
encode_utf8(text) ==
    IF \E k \in 1..Len(text) : utf8(text[k]).raised # "none"
    THEN [raised |-> "UnicodeEncodeError", data |-> <<>>]
    ELSE [raised |-> "none",
          data |-> Flatten([k \in 1..Len(text) |-> utf8(text[k]).data])]

\* the sextet of a character of the base64 alphabet (A-Z a-z 0-9 + /), 64
\* for any other character
B64Value(c) ==
    IF c >= 65 /\ c <= 90 THEN c - 65
    ELSE IF c >= 97 /\ c <= 122 THEN c - 71
    ELSE IF c >= 48 /\ c <= 57 THEN c + 4
    ELSE IF c = 43 THEN 62
    ELSE IF c = 47 THEN 63
    ELSE 64

RECURSIVE a2b_base64(_, _, _, _, _)
\* binascii.a2b_base64, not strict: characters outside the alphabet are
\* passed over, "=" ends the data once it completes a quad that holds at
\* least two sextets, and data that ends inside a quad is an error
a2b_base64(ascii, quad_pos, leftchar, pads, bin) ==
    IF ascii = <<>> THEN
        IF quad_pos = 0 THEN [raised |-> "none", data |-> bin]
        ELSE [raised |-> "binascii.Error", data |-> <<>>]
    ELSE
        LET this_ch == B64Value(Head(ascii))
            rest == Tail(ascii)
        IN  IF Head(ascii) = 61 THEN
                IF quad_pos >= 2 /\ quad_pos + pads + 1 >= 4
                THEN [raised |-> "none", data |-> bin]
                ELSE a2b_base64(rest, quad_pos, leftchar,
                                IF quad_pos >= 2 THEN pads + 1 ELSE pads, bin)
            ELSE IF this_ch >= 64 THEN
                a2b_base64(rest, quad_pos, leftchar, pads, bin)
            ELSE IF quad_pos = 0 THEN
                a2b_base64(rest, 1, this_ch, 0, bin)
            ELSE IF quad_pos = 1 THEN
                a2b_base64(rest, 2, this_ch % 16, 0,
                           Append(bin, leftchar * 4 + (this_ch \div 16)))
            ELSE IF quad_pos = 2 THEN
                a2b_base64(rest, 3, this_ch % 4, 0,
                           Append(bin, leftchar * 16 + (this_ch \div 4)))
            ELSE
                a2b_base64(rest, 0, 0, 0, Append(bin, leftchar * 64 + this_ch))

\* base64.b64decode(s) of a str given as its code points: the str has to be
\* ASCII
b64decode(text) ==
    IF \E k \in 1..Len(text) : text[k] > 127
    THEN [raised |-> "ValueError", data |-> <<>>]
    ELSE a2b_base64(text, 0, 0, 0, <<>>)

-----------------------------------------------------------------------------
(* Archive members.  An archive is the sequence of its members, each        *)
(* [filename, mode, dos, date_time, compress_type, data].                   *)

\* 0o100644, the mode PermissiveZipFile.writestr gives a file member
FileAttr == 33188

\* 0o40775, the mode PermissiveZipFile.writestr gives a directory member
DirAttr == 16893

\* 0x10, the MS-DOS directory flag
DosDirFlag == 16

\* the time a member keeps in the archive: MS-DOS time counts whole
\* 2-second steps
dos_time(t) == t - (t % 2)

\* ZipFile.write(path, arcname, compress_type): ZipInfo.from_file takes the
\* member's mode and time from the file's stat and its name from the
\* normalised arcname ("." for base itself); a directory gets a trailing
\* slash, the directory flag, no data and the default ZIP_STORED
zf_write(fsys, path, arcname, compress_type) ==
    LET name == IF normpath(arcname) = <<>> THEN <<".">>
                ELSE normpath(arcname)
        st == stat(fsys, path)
    IN  IF is_dir(fsys, path)
        THEN [filename |-> Append(name, ""), mode |-> st.mode,
              dos |-> DosDirFlag, date_time |-> dos_time(st.mtime),
              compress_type |-> "ZIP_STORED", data |-> <<>>]
        ELSE [filename |-> name, mode |-> st.mode,
              dos |-> 0, date_time |-> dos_time(st.mtime),
              compress_type |-> compress_type, data |-> st.data]

\* PermissiveZipFile.writestr(arcname, data, compress_type) with the wall
\* clock reading now at this call; data is [t |-> "str", s |-> code points]
\* or [t |-> "bytes", b |-> bytes].  zinfo is the member written, if any
writestr(arcname, data, compress_type, now) ==
    LET enc == IF data.t = "str" THEN encode_utf8(data.s)
               ELSE [raised |-> "none", data |-> data.b]
    IN  IF enc.raised # "none" THEN [raised |-> enc.raised, zinfo |-> <<>>]
        ELSE IF arcname = <<"">> THEN
            \* filename[-1] of the empty name
            [raised |-> "IndexError", zinfo |-> <<>>]
        ELSE IF Last(arcname) = "" THEN
            [raised |-> "none",
             zinfo |-> <<[filename |-> arcname, mode |-> DirAttr,
                          dos |-> DosDirFlag, date_time |-> dos_time(now),
                          compress_type |-> compress_type,
                          data |-> enc.data]>>]
        ELSE
            [raised |-> "none",
             zinfo |-> <<[filename |-> arcname, mode |-> FileAttr,
                          dos |-> 0, date_time |-> dos_time(now),
                          compress_type |-> compress_type,
                          data |-> enc.data]>>]

-----------------------------------------------------------------------------
(* Challenge._add_zip_asset *)

\* base = self.root, or self.root / spec["base"]
zip_base(spec) ==
    IF "base" \in DOMAIN spec THEN Root \o spec.base ELSE Root

\* exclude is not None and exclude.match_file(path.relative_to(base))
excluded(spec, rel) ==
    "exclude" \in DOMAIN spec /\ match_file(spec.exclude, rel)

\* an aggregate that keeps the mtime of the file written last
track_mtime_last(mtime, st_mtime) == st_mtime

\* mtime = max(mtime, path.stat().st_mtime)
track_mtime(mtime, st_mtime) == Max2(mtime, st_mtime)

\* a walk that writes a directory and does not descend into it
walk_children_none(fsys, path) == <<>>

\* for nm in path.iterdir(): the children the walk descends into
walk_children(fsys, path) == iterdir(fsys, path)

RECURSIVE add(_, _, _, _)
\* the closure add(path); acc is [zf, mtime], the archive written so far and
\* the nonlocal mtime
add(fsys, spec, path, acc) ==
    LET rel == relative_to(path, zip_base(spec))
    IN  IF excluded(spec, rel) THEN acc
        ELSE IF is_file(fsys, path) THEN
            [zf |-> Append(acc.zf, zf_write(fsys, path, rel, "ZIP_DEFLATED")),
             mtime |-> track_mtime(acc.mtime, stat(fsys, path).mtime)]
        ELSE IF is_dir(fsys, path) THEN
            LET kids == walk_children(fsys, path)
                own  == [zf |-> Append(acc.zf,
                                       zf_write(fsys, path, rel, "ZIP_STORED")),
                         mtime |-> acc.mtime]
                step[k \in 0..Len(kids)] ==
                    IF k = 0 THEN own
                    ELSE add(fsys, spec, kids[k], step[k - 1])
            IN  step[Len(kids)]
        ELSE acc

\* for path in base.glob(glob): add(path), from acc on
zip_glob(fsys, spec, found, acc) ==
    LET step[k \in 0..Len(found)] ==
            IF k = 0 THEN acc
            ELSE add(fsys, spec, found[k], step[k - 1])
    IN  step[Len(found)]

\* for glob in spec["files"]: for path in base.glob(glob): add(path); the
\* loop stops at the first glob that raises
zip_files(fsys, spec) ==
    LET step[g \in 0..Len(spec.files)] ==
            IF g = 0 THEN [raised |-> "none", zf |-> <<>>, mtime |-> 0]
            ELSE IF step[g - 1].raised # "none" THEN step[g - 1]
            ELSE
                LET \* r: what base.glob gave, w: the archive after its paths
                    written(r, w) ==
                        [raised |-> r.raised, zf |-> w.zf, mtime |-> w.mtime]
                    walk(r) ==
                        written(r, zip_glob(fsys, spec, r.paths,
                                            [zf |-> step[g - 1].zf,
                                             mtime |-> step[g - 1].mtime]))
                IN  walk(glob(fsys, zip_base(spec), spec.files[g]))
    IN  step[Len(spec.files)]

\* the content of one `additional` entry: its `str`, else its decoded
\* `base64`, else ValueError
additional_content(additional) ==
    IF "str" \in DOMAIN additional THEN
        [raised |-> "none", content |-> [t |-> "str", s |-> additional.str]]
    ELSE IF "base64" \in DOMAIN additional THEN
        LET dec == b64decode(additional.base64)
        IN  [raised |-> dec.raised, content |-> [t |-> "bytes", b |-> dec.data]]
    ELSE [raised |-> "ValueError", content |-> [t |-> "bytes", b |-> <<>>]]

\* the `additional` loop from archive zf on; clock[k] is what the wall clock
\* reads when the writestr call of entry k asks it.  The loop stops at the
\* first entry that raises: no content, no `path` key, or an error in
\* writestr
zip_additional(spec, zf, clock) ==
    LET more == IF "additional" \in DOMAIN spec THEN spec.additional ELSE <<>>
        step[k \in 0..Len(more)] ==
            IF k = 0 THEN [raised |-> "none", zf |-> zf]
            ELSE IF step[k - 1].raised # "none" THEN step[k - 1]
            ELSE
                LET c == additional_content(more[k])
                IN  IF c.raised # "none"
                    THEN [raised |-> c.raised, zf |-> step[k - 1].zf]
                    ELSE IF "path" \notin DOMAIN more[k]
                    THEN [raised |-> "KeyError", zf |-> step[k - 1].zf]
                    ELSE
                        LET w == writestr(more[k].path, c.content,
                                          "ZIP_DEFLATED", clock[k])
                        IN  [raised |-> w.raised,
                             zf |-> step[k - 1].zf \o w.zinfo]
    IN  step[Len(more)]

\* the number of times a run of _add_zip_asset on spec can read the clock:
\* once in each writestr call
clock_reads(spec) ==
    IF "additional" \in DOMAIN spec THEN Len(spec.additional) ELSE 0

\* _add_zip_asset(transaction, spec) with the wall clock reading clock[k] in
\* its k-th writestr call: the exception it raises, if any, and the calls it
\* makes on the transaction (one add(name, mtime, contents), contents being
\* the finished archive)
add_zip_asset(fsys, spec, clock) ==
    IF "files" \notin DOMAIN spec
    THEN [raised |-> "KeyError", calls |-> <<>>]
    ELSE
        LET \* files: the glob loop's outcome, done: the additional loop's
            finish(files, done) ==
                IF files.raised # "none"
                THEN [raised |-> files.raised, calls |-> <<>>]
                ELSE IF done.raised # "none"
                THEN [raised |-> done.raised, calls |-> <<>>]
                ELSE IF "as" \notin DOMAIN spec
                THEN [raised |-> "KeyError", calls |-> <<>>]
                ELSE [raised |-> "none",
                      calls |-> <<[op |-> "add", name |-> spec.as,
                                   mtime |-> files.mtime, data |-> done.zf]>>]
            additional(files) ==
                finish(files, zip_additional(spec, files.zf, clock))
        IN  additional(zip_files(fsys, spec))

-----------------------------------------------------------------------------
(* The asset-source registry and Challenge.create_transaction *)

\* a bare path string of the provide list, Path(provide) as its components
PyStr(path) == [pystr |-> path]

\* isinstance(provide, str)
IsStr(provide) == "pystr" \in DOMAIN provide

\* Challenge._add_file_asset(transaction, spec)
add_file_asset(spec) ==
    IF {"file", "as"} \subseteq DOMAIN spec
    THEN [raised |-> "none",
          calls |-> <<[op |-> "add_file", name |-> spec.as,
                       path |-> Root \o spec.file]>>]
    ELSE [raised |-> "KeyError", calls |-> <<>>]

\* a handler a consumer registers through register_asset_source: it adds
\* one artifact named spec["as"], with no contents
do_add(spec) ==
    IF "as" \in DOMAIN spec
    THEN [raised |-> "none",
          calls |-> <<[op |-> "add", name |-> spec.as, mtime |-> 0,
                       data |-> <<>>]>>]
    ELSE [raised |-> "KeyError", calls |-> <<>>]

\* calling the registered callable
call_handler(handler, fsys, spec, clock) ==
    CASE handler = "_add_file_asset" -> add_file_asset(spec)
      [] handler = "_add_zip_asset" -> add_zip_asset(fsys, spec, clock)
      [] OTHER -> do_add(spec)

\* self._asset_sources[provide["kind"]](transaction, provide["spec"])
dispatch(sources, provide, fsys, clock) ==
    IF "kind" \notin DOMAIN provide THEN
        [raised |-> "KeyError", calls |-> <<>>]
    ELSE IF provide.kind \notin DOMAIN sources THEN
        [raised |-> "KeyError", calls |-> <<>>]
    ELSE IF "spec" \notin DOMAIN provide THEN
        [raised |-> "KeyError", calls |-> <<>>]
    ELSE call_handler(sources[provide.kind], fsys, provide.spec, clock)

\* the body of create_transaction's for loop for one provide entry: what it
\* raises and the calls it makes on the transaction
provide_entry(sources, provide, fsys, clock) ==
    IF IsStr(provide)
    THEN [raised |-> "none",
          calls |-> <<[op |-> "add_file", name |-> Last(Root \o provide.pystr),
                       path |-> Root \o provide.pystr]>>]
    ELSE dispatch(sources, provide, fsys, clock)

\* a loop that walks the provide list backwards
loop_entry_reversed(provides, k) == provides[Len(provides) + 1 - k]

\* the entry the for loop visits in its k-th iteration
loop_entry(provides, k) == provides[k]

\* the number of clock readings handling one provide entry can take
entry_clock_reads(provide) ==
    IF IsStr(provide) \/ "spec" \notin DOMAIN provide THEN 0
    ELSE clock_reads(provide.spec)

\* Challenge.__init__: the built-in kinds
InitialSources ==
    [k \in {"file", "zip"} |->
        IF k = "file" THEN "_add_file_asset" ELSE "_add_zip_asset"]

\* Challenge.register_asset_source(kind, do_add)
register_asset_source(kind, handler) ==
    /\ pc = "idle"
    /\ _asset_sources' =
           [k \in DOMAIN _asset_sources \cup {kind} |->
               IF k = kind THEN handler ELSE _asset_sources[k]]
    /\ _asset_sources' # _asset_sources
    /\ UNCHANGED <<config, fs, pc, i, transaction, returned, error, runs,
                   shortcuts>>

\* create_transaction up to the loop: a fresh transaction, returned at once
\* when the config has no provide list
create_transaction ==
    /\ pc = "idle"
    /\ transaction' = <<>>
    /\ i' = 1
    /\ IF "provide" \notin DOMAIN config
       THEN pc' = "returned" /\ returned' = <<transaction'>>
       ELSE pc' = "loop" /\ UNCHANGED returned
    /\ UNCHANGED <<config, _asset_sources, fs, error, runs, shortcuts>>

\* one iteration of the for loop; an exception leaves create_transaction
create_transaction_loop ==
    /\ pc = "loop"
    /\ i <= Len(config.provide)
    /\ \E clock \in [1..entry_clock_reads(loop_entry(config.provide, i))
                         -> 1..MaxNow] :
          \E r \in {provide_entry(_asset_sources,
                                  loop_entry(config.provide, i), fs, clock)} :
              /\ transaction' = transaction \o r.calls
              /\ IF r.raised # "none"
                 THEN pc' = "raised" /\ error' = r.raised /\ UNCHANGED i
                 ELSE i' = i + 1 /\ UNCHANGED <<pc, error>>
    /\ UNCHANGED <<config, _asset_sources, fs, returned, runs, shortcuts>>

\* return transaction
create_transaction_return ==
    /\ pc = "loop"
    /\ i > Len(config.provide)
    /\ pc' = "returned"
    /\ returned' = <<transaction>>
    /\ UNCHANGED <<config, _asset_sources, fs, i, transaction, error, runs,
                   shortcuts>>

-----------------------------------------------------------------------------
(* Inputs of the transaction specification *)

\* the include glob "d"
GlobD == << <<"d">> >>

\* file contents
DataA == <<65>>
DataB == <<66>>

\* a tree: under the filesystem's root the directory chall, which holds
\* file a (mtime ma, 0 = absent) and directory d (if hasd), which holds file
\* b (mtime mb, 0 = absent) and the empty directory e (if hase); chall lists
\* a before d unless rootrev, d lists b before e unless drev
MkFs(ma, hasd, mb, hase, fmode, dmode, rootrev, drev) ==
    LET paths == {<<>>, Root}
                 \cup (IF ma > 0 THEN {Root \o <<"a">>} ELSE {})
                 \cup (IF hasd THEN {Root \o <<"d">>} ELSE {})
                 \cup (IF hasd /\ mb > 0 THEN {Root \o <<"d", "b">>} ELSE {})
                 \cup (IF hasd /\ hase THEN {Root \o <<"d", "e">>} ELSE {})
        order(p) == IF p = <<>> THEN Root
                    ELSE IF p = Root
                    THEN (IF rootrev THEN <<"d", "a">> ELSE <<"a", "d">>)
                    ELSE IF p = Root \o <<"d">>
                    THEN (IF drev THEN <<"e", "b">> ELSE <<"b", "e">>)
                    ELSE <<>>
        dirnode(p) == [type |-> "dir", mode |-> dmode, mtime |-> MaxMtime,
                       data |-> <<>>,
                       listing |-> SelectSeq(order(p),
                                             LAMBDA n : Append(p, n) \in paths)]
    IN  [p \in paths |->
            IF p = Root \o <<"a">>
            THEN [type |-> "file", mode |-> fmode, mtime |-> ma,
                  data |-> DataA]
            ELSE IF p = Root \o <<"d", "b">>
            THEN [type |-> "file", mode |-> fmode, mtime |-> mb,
                  data |-> DataB]
            ELSE dirnode(p)]

FsSample == MkFs(1, TRUE, MaxMtime, TRUE, 33152, 16832, FALSE, FALSE)

\* the sample tree with either listing order of d
FsSamples ==
    {MkFs(1, TRUE, MaxMtime, TRUE, 33152, 16832, FALSE, drev) :
        drev \in BOOLEAN}

\* `additional` entries: text "h" + e-acute, base64 "aGk=" of "hi", a name
\* with a trailing slash, and one with neither `str` nor `base64`
AddStr == [path |-> <<"flag.txt">>, str |-> <<104, 233>>]
AddB64 == [path |-> <<"key.bin">>, base64 |-> <<97, 71, 107, 61>>]
AddDir == [path |-> <<"extra", "">>, str |-> <<>>]
AddBad == [path |-> <<"bad">>]

\* `additional` entries the handler fails on: base64 "aGk" short of its
\* padding, base64 with a non-ASCII character, no `path`, a lone surrogate
\* as text, the empty name
AddB64Short == [path |-> <<"key.bin">>, base64 |-> <<97, 71, 107>>]
AddB64Wide == [path |-> <<"key.bin">>, base64 |-> <<97, 233>>]
AddNoPath == [str |-> <<104>>]
AddSurrogate == [path |-> <<"flag.txt">>, str |-> <<104, 55296>>]
AddNoName == [path |-> <<"">>, str |-> <<104>>]

ProvideEntries ==
    { PyStr(<<"a">>),
      PyStr(<<"d", "b">>),
      [kind |-> "file", spec |-> [file |-> <<"a">>, as |-> "x"]],
      [kind |-> "file", spec |-> [file |-> <<"d", "b">>, as |-> "x"]],
      [kind |-> "zip", spec |-> [files |-> <<GlobD>>, as |-> "src.zip",
                                 additional |-> <<AddStr>>]],
      [kind |-> "custom", spec |-> [as |-> "y"]],
      [kind |-> "nonexistent", spec |-> <<>>],
      [file |-> <<"a">>, as |-> "x"] }

ProvideLists == UNION {[1..n -> ProvideEntries] : n \in 0..MaxProvide}

TxConfigs ==
    {[id |-> "chall"]}
    \cup {[id |-> "chall", provide |-> p] : p \in ProvideLists}

InitTx ==
    /\ config \in TxConfigs
    /\ _asset_sources = InitialSources
    /\ fs \in FsSamples
    /\ pc = "idle"
    /\ i = 1
    /\ transaction = <<>>
    /\ returned = <<>>
    /\ error = "none"
    /\ runs = <<>>
    /\ shortcuts = <<>>

NextTx ==
    \/ \E kind \in {"file", "custom"} : register_asset_source(kind, "do_add")
    \/ create_transaction
    \/ create_transaction_loop
    \/ create_transaction_return

SpecTx == InitTx /\ [][NextTx]_vars

-----------------------------------------------------------------------------
(* The zip handler run on its own: _add_zip_asset over a bounded family of  *)
(* trees and zip specs, run repeatedly over the unchanged tree.             *)

\* the zip spec of the unit: the spec of its only provide entry
zip_spec == config.provide[1].spec

\* one run of _add_zip_asset, the wall clock reading some time in each
\* writestr call
run_add_zip_asset ==
    /\ Len(runs) < MaxRuns
    /\ \E clock \in [1..clock_reads(zip_spec) -> 1..MaxNow] :
          runs' = Append(runs, add_zip_asset(fs, zip_spec, clock))
    /\ UNCHANGED <<config, _asset_sources, fs, pc, i, transaction, returned,
                   error, shortcuts>>

\* trees of every shape and mtime with modes 0644/0775 in every listing
\* order, trees of every shape with modes 0600/0700 in one
FsStates ==
    { MkFs(ma, hasd, mb, hase, 33188, 16893, o[1], o[2]) :
        ma \in 0..MaxMtime, hasd \in BOOLEAN, mb \in 0..MaxMtime,
        hase \in BOOLEAN, o \in BOOLEAN \X BOOLEAN }
    \cup { MkFs(1, hasd, MaxMtime, hase, 33152, 16832, FALSE, FALSE) :
              hasd \in BOOLEAN, hase \in BOOLEAN }

\* include globs "*", "d", "**", which the specs also list together
Globs == { << <<"*">> >>, GlobD, << <<"*", "*">> >> }

GlobLists == UNION {[1..n -> Globs] : n \in 1..MaxGlobs}

\* include globs of several components, with other wildcards, "." and
\* "..", a trailing slash, longer names: "d/b", "**/b", "?", "a*", "[!a]",
\* "d/[a-c]", "*/", "./d/.", "..", "d/..", "*/../a", "../c*l/a",
\* "../chall/d", "ab"
WildGlobs ==
    { << <<"d">>, <<"b">> >>, << <<"*", "*">>, <<"b">> >>,
      << <<".", ".">>, <<"c", "*", "l">>, <<"a">> >>,
      << <<".", ".">>, <<"c", "h", "a", "l", "l">>, <<"d">> >>,
      << <<"a", "b">> >>,
      << <<"?">> >>, << <<"a", "*">> >>, << <<"[", "!", "a", "]">> >>,
      << <<"d">>, <<"[", "a", "-", "c", "]">> >>,
      << <<"*">>, <<>> >>,
      << <<".">>, <<"d">>, <<".">> >>,
      << <<".", ".">> >>, << <<"d">>, <<".", ".">> >>,
      << <<"*">>, <<".", ".">>, <<"a">> >> }

\* include globs Path.glob rejects: "", ".", "./", "/a", "**b"
BadGlobs ==
    { << <<>> >>, << <<".">> >>, << <<".">>, <<>> >>, << <<>>, <<"a">> >>,
      << <<"*", "*", "b">> >> }

\* exclusion lines "b", "d/", "*", "!d", "/a"
PatB == [neg |-> FALSE, segs |-> <<"b">>]
PatDSlash == [neg |-> FALSE, segs |-> <<"d", "">>]
PatStar == [neg |-> FALSE, segs |-> <<"*">>]
PatNotD == [neg |-> TRUE, segs |-> <<"d">>]
PatRootA == [neg |-> FALSE, segs |-> <<"", "a">>]

\* the optional keys of a zip spec that steer the walk ...
WalkOptions ==
    { [exclude |-> <<PatB>>], [exclude |-> <<PatDSlash>>],
      [exclude |-> <<PatStar, PatNotD>>], [exclude |-> <<PatRootA>>],
      [base |-> <<"d">>],
      [base |-> <<"d">>, exclude |-> <<PatB>>] }

\* ... and those that add synthetic members
AdditionalOptions ==
    { [additional |-> <<AddStr>>], [additional |-> <<AddB64, AddDir>>],
      [additional |-> <<AddStr, AddBad>>],
      [exclude |-> <<PatB>>, additional |-> <<AddStr>>] }

\* `additional` lists the handler fails on
FailingOptions ==
    { [additional |-> <<AddB64, AddB64Short>>],
      [additional |-> <<AddB64Wide>>],
      [additional |-> <<AddStr, AddNoPath>>],
      [additional |-> <<AddSurrogate>>],
      [additional |-> <<AddNoName>>] }

\* zip specs: every glob list alone and with each walk option, every single
\* glob (the wild ones too) with each walk and each `additional` option,
\* and specs that fail: on a glob, on their `additional` list, or for want
\* of `files` or `as`
ZipSpecs ==
    {[files |-> g, as |-> "src.zip"] : g \in GlobLists}
    \cup {o @@ [files |-> g, as |-> "src.zip"] :
              o \in WalkOptions, g \in GlobLists}
    \cup {[files |-> <<g>>, as |-> "src.zip"] : g \in WildGlobs}
    \cup {o @@ [files |-> <<g>>, as |-> "src.zip"] :
              o \in WalkOptions, g \in WildGlobs}
    \cup {o @@ [files |-> <<g>>, as |-> "src.zip"] :
              o \in AdditionalOptions, g \in Globs}
    \cup {[files |-> <<GlobD, g>>, as |-> "src.zip"] : g \in BadGlobs}
    \cup {o @@ [files |-> <<GlobD>>, as |-> "src.zip"] :
              o \in FailingOptions}
    \cup {[as |-> "src.zip"], [files |-> <<GlobD>>]}

InitZip ==
    /\ fs \in FsStates
    /\ config \in {[id |-> "chall",
                    provide |-> <<[kind |-> "zip", spec |-> z]>>] :
                       z \in ZipSpecs}
    /\ _asset_sources = InitialSources
    /\ pc = "idle"
    /\ i = 1
    /\ transaction = <<>>
    /\ returned = <<>>
    /\ error = "none"
    /\ runs = <<>>
    /\ shortcuts = <<>>

NextZip == run_add_zip_asset

SpecZip == InitZip /\ [][NextZip]_vars

-----------------------------------------------------------------------------
(* Challenge.get_context_shortcuts.  A Python value is [t, ...]: a str with *)
(* its characters s, a bool b, an int n, or None.                           *)

PyText(s) == [t |-> "str", s |-> s]
PyBool(b) == [t |-> "bool", b |-> b]
PyInt(n) == [t |-> "int", n |-> n]
PyNone == [t |-> "None"]

Digits == <<"0", "1", "2", "3", "4", "5", "6", "7", "8", "9">>

RECURSIVE Decimal(_)
Decimal(n) ==
    IF n < 10 THEN <<Digits[n + 1]>>
    ELSE Append(Decimal(n \div 10), Digits[(n % 10) + 1])

\* f"{v}": the text an f-string puts for a value
format(v) ==
    CASE v.t = "str" -> v.s
      [] v.t = "bool" -> IF v.b THEN <<"T", "r", "u", "e">>
                         ELSE <<"F", "a", "l", "s", "e">>
      [] v.t = "int" -> Decimal(v.n)
      [] OTHER -> <<"N", "o", "n", "e">>

\* where the leftmost match of the regex .*?:// that starts at pos ends its
\* "://" (0 when there is none): "." matches no line break
SchemeAt(s, pos) ==
    LET ends == {j \in pos..(Len(s) - 2) :
                    /\ s[j] = ":" /\ s[j + 1] = "/" /\ s[j + 2] = "/"
                    /\ \A k \in pos..(j - 1) : s[k] # "\n"}
    IN  IF ends = {} THEN 0
        ELSE CHOOSE j \in ends : \A m \in ends : j <= m

RECURSIVE SubFrom(_, _)
\* re.sub from position pos on: a match is dropped, an unmatched character
\* is kept
SubFrom(s, pos) ==
    IF pos > Len(s) THEN <<>>
    ELSE IF SchemeAt(s, pos) > 0 THEN SubFrom(s, SchemeAt(s, pos) + 3)
    ELSE <<s[pos]>> \o SubFrom(s, pos + 1)

\* _strip_scheme(url) = re.sub(r".*?://", "", url)
strip_scheme(url) == SubFrom(url, 1)

\* a lookup that prefers the rule's `host` value to its `http` value
shortcut_host_first(expose_cfg) ==
    IF "host" \in DOMAIN expose_cfg THEN expose_cfg.host
    ELSE IF "http" \in DOMAIN expose_cfg THEN expose_cfg.http
    ELSE PyNone

\* expose_cfg.get("http", expose_cfg.get("host", None))
shortcut_host(expose_cfg) ==
    IF "http" \in DOMAIN expose_cfg THEN expose_cfg.http
    ELSE IF "host" \in DOMAIN expose_cfg THEN expose_cfg.host
    ELSE PyNone

\* len(expose) == 1 and len(next(iter(expose.values()))) == 1
single_exposure(cfg) ==
    /\ "expose" \in DOMAIN cfg
    /\ Cardinality(DOMAIN cfg.expose) = 1
    /\ \A target \in DOMAIN cfg.expose : Len(cfg.expose[target]) = 1

\* the shortcuts of the one rule of the one exposed target
rule_shortcuts(expose_cfg) ==
    LET host == shortcut_host(expose_cfg)
        h == format(host)
        has_tcp == "tcp" \in DOMAIN expose_cfg
        has_http == "http" \in DOMAIN expose_cfg
        port == IF has_tcp THEN format(expose_cfg.tcp) ELSE <<>>
        url == IF has_http THEN <<"h", "t", "t", "p", "s", ":", "/", "/">> \o h
               ELSE <<"h", "t", "t", "p", ":", "/", "/">> \o h \o <<":">>
                    \o port
        keys == {"host"}
                \cup (IF has_tcp THEN {"port", "nc"} ELSE {})
                \cup (IF has_tcp \/ has_http THEN {"url", "link"} ELSE {})
    IN  [k \in keys |->
            CASE k = "host" -> host
              [] k = "port" -> expose_cfg.tcp
              [] k = "nc" -> PyText(<<"n", "c", " ">> \o h \o <<" ">> \o port)
              [] k = "url" -> PyText(url)
              [] OTHER -> PyText(<<"[">> \o strip_scheme(url) \o <<"]", "(">>
                                 \o url \o <<")">>)]

\* Challenge.get_context_shortcuts() for configuration cfg
context_shortcuts(cfg) ==
    IF single_exposure(cfg)
    THEN LET target == CHOOSE t \in DOMAIN cfg.expose : TRUE
         IN  rule_shortcuts(cfg.expose[target][1])
    ELSE <<>>

get_context_shortcuts ==
    /\ shortcuts' = <<context_shortcuts(config)>>
    /\ UNCHANGED <<config, _asset_sources, fs, pc, i, transaction, returned,
                   error, runs>>

HostChars == {"a", ":", "/", "\n"}

HostStrings == UNION {[1..n -> HostChars] : n \in 1..MaxHostLen}

\* an exposure rule with the given keys: http is true or a host string,
\* host a host string, tcp a port
MkRule(keys, http, host) ==
    [k \in keys |->
        CASE k = "http" -> http
          [] k = "host" -> PyText(host)
          [] OTHER -> PyInt(1337)]

Rules ==
    UNION { { MkRule(keys, http, h) :
                keys \in SUBSET {"http", "host", "tcp"},
                http \in {PyBool(TRUE), PyText(h)} } :
            h \in HostStrings }

\* no target, one target with no, one or two rules, two targets
Exposures ==
    {[k \in {} |-> <<>>], [web |-> <<>>]}
    \cup UNION { { [web |-> <<r>>], [web |-> <<r, r>>],
                   [web |-> <<r>>, api |-> <<r>>] } : r \in Rules }

CtxConfigs ==
    {[id |-> "chall"]}
    \cup {[id |-> "chall", expose |-> e] : e \in Exposures}

InitCtx ==
    /\ config \in CtxConfigs
    /\ _asset_sources = InitialSources
    /\ fs = FsSample
    /\ pc = "idle"
    /\ i = 1
    /\ transaction = <<>>
    /\ returned = <<>>
    /\ error = "none"
    /\ runs = <<>>
    /\ shortcuts = <<>>

NextCtx == get_context_shortcuts

SpecCtx == InitCtx /\ [][NextCtx]_vars

-----------------------------------------------------------------------------
(* Claims about create_transaction, checked under SpecTx *)

\* the calls entries 1..k of the provide list make, in declared order, when
\* the clock reads clocks[j] while entry j is handled
calls_of(k, clocks) ==
    Flatten([j \in 1..k |->
                provide_entry(_asset_sources, config.provide[j], fs,
                              clocks[j]).calls])

SetMax(S) == CHOOSE m \in S : \A x \in S : x <= m

\* the most clock readings any one entry of the provide list can take
MaxReads ==
    SetMax({0} \cup {entry_clock_reads(config.provide[j]) :
                        j \in 1..Len(config.provide)})

\* C1: create_transaction calls add/add_file in the declared order of the
\* provide entries: inside the loop and at the return, the calls made so far
\* are those of the entries before the loop index, entry by entry in list
\* order, whatever the kind of each entry (bare path, file, zip, custom); the
\* transaction returned is the one holding them all.
C1_DeclaredOrder ==
    /\ (pc \in {"loop", "returned"} /\ "provide" \in DOMAIN config) =>
          \E clocks \in [1..(i - 1) -> [1..MaxReads -> 1..MaxNow]] :
              transaction = calls_of(i - 1, clocks)
    /\ pc = "returned" =>
          /\ returned = <<transaction>>
          /\ "provide" \in DOMAIN config => i = Len(config.provide) + 1

\* a returned transaction whose three artifacts come from a zip entry, a
\* custom kind and a bare path, in that order
C1_Witness ==
    /\ pc = "returned"
    /\ "provide" \in DOMAIN config
    /\ Len(config.provide) = 3
    /\ ~IsStr(config.provide[1]) /\ "kind" \in DOMAIN config.provide[1]
    /\ config.provide[1].kind = "zip"
    /\ ~IsStr(config.provide[2]) /\ "kind" \in DOMAIN config.provide[2]
    /\ config.provide[2].kind = "custom"
    /\ IsStr(config.provide[3])
    /\ Len(transaction) = 3
    /\ transaction[1].name = "src.zip"
    /\ transaction[2].name = "y"
    /\ transaction[3].name = "b"

\* a provide entry that is a record naming a kind the registry does not hold
UnknownKind(provide) ==
    /\ ~IsStr(provide)
    /\ "kind" \in DOMAIN provide
    /\ provide.kind \notin DOMAIN _asset_sources

\* C2: an entry of an unregistered kind makes create_transaction raise
\* UnknownAssetKind and return no transaction, and it is never skipped.
C2_UnknownAssetKind ==
    /\ (pc = "raised" /\ UnknownKind(config.provide[i])) =>
          error = "UnknownAssetKind" /\ returned = <<>>
    /\ (pc \in {"loop", "returned"} /\ "provide" \in DOMAIN config) =>
          \A k \in 1..(i - 1) : ~UnknownKind(config.provide[k])

\* C3: the transaction being built never holds two artifacts with the same
\* destination name (create_transaction raising DuplicateArtifactName at the
\* second colliding entry, before it is added).
C3_NoDuplicateNames ==
    \A j, k \in 1..Len(transaction) :
        j < k => transaction[j].name # transaction[k].name

\* a record {file, as} that carries no `kind`
FileAsRecord(provide) ==
    /\ ~IsStr(provide)
    /\ "kind" \notin DOMAIN provide
    /\ {"file", "as"} \subseteq DOMAIN provide

\* C4: a record {file: p, as: n} without `kind` is handled like a file entry
\* with explicit naming, so create_transaction never raises at one.
C4_FileAsRecordAccepted ==
    ~(pc = "raised" /\ FileAsRecord(config.provide[i]))

-----------------------------------------------------------------------------
(* Claims about the zip handler, checked under SpecZip *)

\* the archives of the runs that finished: the contents handed to
\* transaction.add
Archives == {runs[r].calls[1].data : r \in {q \in 1..Len(runs) :
                                              runs[q].raised = "none"}}

\* the filesystem paths below the archive's base
UnderBase ==
    {p \in DOMAIN fs : IsPrefix(zip_base(zip_spec), p) /\ p # zip_base(zip_spec)}

\* the name of a member without its trailing slash
MemberName(m) ==
    IF Last(m.filename) = "" THEN Front(m.filename) ELSE m.filename

\* the archive holds a member whose name, read from base, leads to the file
\* or directory p
InArchive(zf, p) ==
    \E k \in 1..Len(zf) :
        /\ resolve(fs, zip_base(zip_spec) \o MemberName(zf[k])) = p
        /\ (Last(zf[k].filename) = "") = is_dir(fs, p)

\* the path is a result of at least one include glob
GlobMatched(p) ==
    \E g \in 1..Len(zip_spec.files) :
        LET found == glob(fs, zip_base(zip_spec), zip_spec.files[g]).paths
        IN  \E k \in 1..Len(found) : found[k] = p

Excluded(p) == excluded(zip_spec, relative_to(p, zip_base(zip_spec)))

Parent(p) == Front(p)

RECURSIVE Reached(_)
\* not excluded, and matched by a glob or the child of a reached directory,
\* which may be base itself
Reached(p) ==
    /\ ~Excluded(p)
    /\ \/ GlobMatched(p)
       \/ /\ p # zip_base(zip_spec)
          /\ Parent(p) \in UnderBase \cup {zip_base(zip_spec)}
          /\ is_dir(fs, Parent(p))
          /\ Reached(Parent(p))

\* no include glob has a ".." component
NoParentSteps ==
    \A g \in 1..Len(zip_spec.files) :
        \A k \in 1..Len(zip_spec.files[g]) :
            zip_spec.files[g][k] # <<".", ".">>

\* C5 as stated: a path under base is a member of the built archive exactly
\* when it matches an include glob and no exclusion pattern.
C5_GlobAndNotExcluded ==
    \A zf \in Archives : \A p \in UnderBase :
        InArchive(zf, p) <=> (GlobMatched(p) /\ ~Excluded(p))

\* C5 (amended): when no include glob steps to a parent directory (".."), a
\* file or directory under base is a member of the built archive exactly
\* when it matches no exclusion pattern and either matches an include glob
\* or is the child of a directory (base itself included) that the walk has
\* written: the walk takes everything below a matched directory, glob or no
\* glob, down to the excluded paths.  A path matching an exclusion pattern
\* is never a member.
C5_GlobOrWalkedAndNotExcluded ==
    \A zf \in Archives :
        NoParentSteps =>
            \A p \in UnderBase :
                /\ InArchive(zf, p) <=> Reached(p)
                /\ Excluded(p) => ~InArchive(zf, p)

\* an archive built from the glob "d" alone holds d/b, which matches no glob
C5_Witness ==
    /\ "files" \in DOMAIN zip_spec
    /\ zip_spec.files = <<GlobD>>
    /\ "base" \notin DOMAIN zip_spec
    /\ <<"chall", "d", "b">> \in UnderBase
    /\ ~GlobMatched(<<"chall", "d", "b">>)
    /\ \E zf \in Archives : InArchive(zf, <<"chall", "d", "b">>)

\* C6: the mtime handed to transaction.add is the largest mtime of the
\* regular files written into the archive, and 0 when there is none;
\* directories, excluded paths and `additional` entries do not count.
C6_AggregateMtime ==
    \A r \in 1..Len(runs) :
        runs[r].raised = "none" =>
            runs[r].calls[1].mtime =
                SetMax({0} \cup {fs[p].mtime :
                                   p \in {q \in DOMAIN fs :
                                            /\ is_file(fs, q)
                                            /\ InArchive(runs[r].calls[1].data,
                                                         q)}})

\* a finished run reporting mtime 1 although the archive holds a directory
\* and a synthetic member stamped later and a later file was excluded
C6_Witness ==
    /\ Len(runs) > 0
    /\ runs[1].raised = "none"
    /\ runs[1].calls[1].mtime = 1
    /\ \E p \in UnderBase : is_file(fs, p) /\ fs[p].mtime > 1 /\ Excluded(p)
    /\ \E k \in 1..Len(runs[1].calls[1].data) :
           LET m == runs[1].calls[1].data[k]
           IN  Last(m.filename) = "" /\ m.date_time > 1
    /\ \E k \in 1..Len(runs[1].calls[1].data) :
           LET m == runs[1].calls[1].data[k]
           IN  m.filename = <<"flag.txt">> /\ m.date_time > 1

\* C7: successive runs of the zip handler over the same unchanged tree with
\* the same zip spec, at whatever wall clock times, give the same result: the
\* same members in the same order with the same names, contents, modes and
\* timestamps, and the same mtime.
C7_TwoRunsIdentical ==
    \A q, r \in 1..Len(runs) : runs[q] = runs[r]

\* C9: every member of the archive carries normalized permissions: a file
\* member has mode 0644, a directory member mode 0775 and the directory
\* flag, whatever the mode of the source.
C9_NormalizedModes ==
    \A zf \in Archives : \A k \in 1..Len(zf) :
        IF Last(zf[k].filename) = ""
        THEN zf[k].mode = DirAttr /\ zf[k].dos = DosDirFlag
        ELSE zf[k].mode = FileAttr

\* C10: each path is written to the archive at most once, and a directory
\* member comes before every member of its subtree.
C10_WrittenOnce ==
    \A zf \in Archives : \A j, k \in 1..Len(zf) :
        j < k =>
            /\ zf[j].filename # zf[k].filename
            /\ Last(zf[k].filename) = "" =>
                  ~IsPrefix(SubSeq(zf[k].filename, 1,
                                   Len(zf[k].filename) - 1),
                            zf[j].filename)

-----------------------------------------------------------------------------
(* Claims about get_context_shortcuts, checked under SpecCtx *)

\* the unit exposes one target with the one rule {http: true, host: h}
HttpTrueRule ==
    /\ "expose" \in DOMAIN config
    /\ DOMAIN config.expose = {"web"}
    /\ Len(config.expose.web) = 1
    /\ DOMAIN config.expose.web[1] = {"http", "host"}
    /\ config.expose.web[1].http = PyBool(TRUE)

HttpsPrefix == <<"h", "t", "t", "p", "s", ":", "/", "/">>

\* C8 as stated: for the one rule {http: true, host: h} the shortcuts are
\* exactly host = h, url = "https://" + h and link = "[h](https://h)".
C8_HostIsRuleHost ==
    (shortcuts # <<>> /\ HttpTrueRule) =>
        LET h == config.expose.web[1].host.s
        IN  shortcuts[1] =
                [host |-> PyText(h),
                 url |-> PyText(HttpsPrefix \o h),
                 link |-> PyText(<<"[">> \o h \o <<"]", "(">> \o HttpsPrefix
                                 \o h \o <<")">>)]

\* C8 (amended): the host shortcut is the rule's `http` value, which takes
\* precedence over its `host` value.  For the one rule {http: true, host: h}
\* the shortcuts are exactly host = True, url = "https://True" and
\* link = "[True](https://True)", with no port and no nc key, whatever h is.
C8_HostIsHttpValue ==
    (shortcuts # <<>> /\ HttpTrueRule) =>
        shortcuts[1] =
            [host |-> PyBool(TRUE),
             url |-> PyText(HttpsPrefix \o <<"T", "r", "u", "e">>),
             link |-> PyText(<<"[", "T", "r", "u", "e", "]", "(">>
                             \o HttpsPrefix \o <<"T", "r", "u", "e", ")">>)]

\* the shortcuts of a unit whose one rule is {http: true, host: "a/a"} have
\* been computed
C8_Witness ==
    /\ HttpTrueRule
    /\ config.expose.web[1].host = PyText(<<"a", "/", "a">>)
    /\ shortcuts # <<>>
    /\ DOMAIN shortcuts[1] = {"host", "url", "link"}

====
